---- MODULE Spec2Model ----
(***************************************************************************)
(* Model of playlist_logic.py: the song normalizer, the mood classifier,   *)
(* the playlist builder, merge, statistics, search and the random pick.    *)
(*                                                                         *)
(* Python text is a sequence of one-character strings, so that strip(),    *)
(* lower(), int() and the substring test are computed, not assumed.        *)
(* A Python value is a record [t, s, n, l]: t is the type tag, s the text  *)
(* of a str, n the number of an int/bool (or ten times a float), l the     *)
(* items of a list of str.  "missing" stands for a key a dict lacks.       *)
(***************************************************************************)
EXTENDS Integers, Sequences, FiniteSets, TLC

(* ------------------------------ text ---------------------------------- *)

UpperChars == <<"A","B","C","D","E","F","G","H","I","J","K","L","M",
                "N","O","P","Q","R","S","T","U","V","W","X","Y","Z">>
LowerChars == <<"a","b","c","d","e","f","g","h","i","j","k","l","m",
                "n","o","p","q","r","s","t","u","v","w","x","y","z">>
DigitChars == <<"0","1","2","3","4","5","6","7","8","9">>
Whitespace == {" ", "\t", "\n"}

\* str.lower() on one character
LowerChar(c) ==
    IF \E i \in 1..Len(UpperChars) : UpperChars[i] = c
    THEN LowerChars[CHOOSE i \in 1..Len(UpperChars) : UpperChars[i] = c]
    ELSE c

\* str.lower()
Lower(s) == [i \in 1..Len(s) |-> LowerChar(s[i])]

\* str.strip(): drops the leading and the trailing whitespace
Strip(s) ==
    LET keep == {i \in 1..Len(s) : s[i] \notin Whitespace}
    IN  IF keep = {} THEN <<>>
        ELSE LET lo == CHOOSE i \in keep : \A j \in keep : i <= j
                 hi == CHOOSE i \in keep : \A j \in keep : j <= i
             IN  SubSeq(s, lo, hi)

\* the Python test `sub in s` on two str
Contains(sub, s) ==
    \E i \in 0..(Len(s) - Len(sub)) : SubSeq(s, i + 1, i + Len(sub)) = sub

IsDigit(c) == \E i \in 1..Len(DigitChars) : DigitChars[i] = c
DigitVal(c) == (CHOOSE i \in 1..Len(DigitChars) : DigitChars[i] = c) - 1

RECURSIVE DecimalValue(_)
DecimalValue(ds) ==
    IF ds = <<>> THEN 0
    ELSE 10 * DecimalValue(SubSeq(ds, 1, Len(ds) - 1)) + DigitVal(ds[Len(ds)])

RECURSIVE NatText(_)
NatText(n) ==
    IF n < 10 THEN <<DigitChars[n + 1]>>
    ELSE NatText(n \div 10) \o <<DigitChars[(n % 10) + 1]>>

\* str(n) of an int
IntText(n) == IF n < 0 THEN <<"-">> \o NatText(0 - n) ELSE NatText(n)

\* int(text): surrounding whitespace is ignored, one sign is allowed, then
\* digits, single underscores only between digits; anything else is ValueError
ParseInt(s) ==
    LET t    == Strip(s)
        sgn  == IF t # <<>> /\ t[1] \in {"+", "-"} THEN t[1] ELSE ""
        body == IF sgn = "" THEN t ELSE SubSeq(t, 2, Len(t))
        ok   == /\ body # <<>>
                /\ \A i \in 1..Len(body) : IsDigit(body[i]) \/ body[i] = "_"
                /\ IsDigit(body[1]) /\ IsDigit(body[Len(body)])
                /\ \A i \in 1..(Len(body) - 1) : ~(body[i] = "_" /\ body[i + 1] = "_")
        ds   == SelectSeq(body, IsDigit)
    IN  IF ok THEN [ok |-> TRUE, n |-> IF sgn = "-" THEN 0 - DecimalValue(ds) ELSE DecimalValue(ds)]
        ELSE [ok |-> FALSE, n |-> 0]

(* ------------------------------ values -------------------------------- *)

Missing    == [t |-> "missing", s |-> <<>>, n |-> 0, l |-> <<>>]
None       == [t |-> "none",    s |-> <<>>, n |-> 0, l |-> <<>>]
VStr(s)     == [t |-> "str",     s |-> s,    n |-> 0, l |-> <<>>]
VInt(n)     == [t |-> "int",     s |-> <<>>, n |-> n, l |-> <<>>]
VBool(b)    == [t |-> "bool",    s |-> <<>>, n |-> IF b THEN 1 ELSE 0, l |-> <<>>]
VFloat10(n) == [t |-> "float",   s |-> <<>>, n |-> n, l |-> <<>>]
VList(l)    == [t |-> "list",    s |-> <<>>, n |-> 0, l |-> l]

\* dict.get(key, default) on a field that may be absent
Get(v, default) == IF v.t = "missing" THEN default ELSE v

RECURSIVE ListText(_)
ListText(l) ==
    IF l = <<>> THEN <<>>
    ELSE <<"'">> \o l[1] \o <<"'">>
         \o (IF Len(l) > 1 THEN <<",", " ">> ELSE <<>>) \o ListText(Tail(l))

\* str(v)
PyStr(v) ==
    CASE v.t = "str"   -> v.s
      [] v.t = "int"   -> IntText(v.n)
      [] v.t = "bool"  -> IF v.n = 1 THEN <<"T","r","u","e">> ELSE <<"F","a","l","s","e">>
      [] v.t = "float" -> (IF v.n < 0 THEN <<"-">> ELSE <<>>)
                          \o NatText((IF v.n < 0 THEN 0 - v.n ELSE v.n) \div 10)
                          \o <<".">> \o NatText((IF v.n < 0 THEN 0 - v.n ELSE v.n) % 10)
      [] v.t = "list"  -> <<"[">> \o ListText(v.l) \o <<"]">>
      [] OTHER         -> <<"N","o","n","e">>

\* bool(v): the truth value Python gives v
Truthy(v) ==
    CASE v.t = "str"   -> v.s # <<>>
      [] v.t \in {"int", "bool", "float"} -> v.n # 0
      [] v.t = "list"  -> v.l # <<>>
      [] OTHER         -> FALSE

\* the types Python orders against an int
IsNumber(v) == v.t \in {"int", "bool", "float"}
\* ten times the number, so that an int and a float compare exactly
Tenths(v) == IF v.t = "float" THEN v.n ELSE 10 * v.n

(* ---------------------------- normalizer ------------------------------ *)

\* normalize_title
normalize_title(title) == IF title.t # "str" THEN <<>> ELSE Strip(title.s)

\* normalize_artist
normalize_artist(artist) == IF ~Truthy(artist) THEN <<>> ELSE Lower(Strip(artist.s))

\* normalize_genre
normalize_genre(genre) == Strip(Lower(genre.s))

\* the energy coercion of normalize_song: only text is converted
coerce_energy(energy) ==
    IF energy.t = "str"
    THEN (IF ParseInt(energy.s).ok THEN VInt(ParseInt(energy.s).n) ELSE VInt(0))
    ELSE energy

\* the tags coercion of normalize_song: one str becomes a one-element list
coerce_tags(tags) == IF tags.t = "str" THEN VList(<<tags.s>>) ELSE tags

NoMood == "<absent>"

\* normalize_song: a song is a record of its five fields and its mood
normalize_song(raw) ==
    [title  |-> VStr(normalize_title(VStr(PyStr(Get(raw.title, VStr(<<>>)))))),
     artist |-> VStr(normalize_artist(VStr(PyStr(Get(raw.artist, VStr(<<>>)))))),
     genre  |-> VStr(normalize_genre(VStr(PyStr(Get(raw.genre, VStr(<<>>)))))),
     energy |-> coerce_energy(Get(raw.energy, VInt(0))),
     tags   |-> coerce_tags(Get(raw.tags, VList(<<>>))),
     mood   |-> NoMood]

(* ---------------------------- classifier ------------------------------ *)

HypeMinDefault  == 7
ChillMaxDefault == 3

hype_keywords  == {<<"r","o","c","k">>, <<"p","u","n","k">>, <<"p","a","r","t","y">>}
chill_keywords == {<<"l","o","f","i">>, <<"a","m","b","i","e","n","t">>, <<"s","l","e","e","p">>}

\* the values `k in v` is defined on, and `k in v` for a keyword k: a substring
\* test on a str, a membership test on a list
HasMembers(v) == v.t \in {"str", "list"}
KeywordIn(k, v) == IF v.t = "str" THEN Contains(k, v.s) ELSE \E i \in 1..Len(v.l) : v.l[i] = k

\* classify_song with the two tests in the other order: Chill decided first
classify_song_chill_first(song, profile) ==
    LET energy == Get(song.energy, VInt(0))
        genre  == Get(song.genre, VStr(<<>>))
        title  == Get(song.title, VStr(<<>>))
        hype_min_energy  == Get(profile.hype_min_energy, VInt(HypeMinDefault))
        chill_max_energy == Get(profile.chill_max_energy, VInt(ChillMaxDefault))
        favorite_genre   == Get(profile.favorite_genre, VStr(<<>>))
        is_hype_keyword  == \E k \in hype_keywords : KeywordIn(k, genre)
        is_chill_keyword == \E k \in chill_keywords : KeywordIn(k, title)
    IN  IF ~HasMembers(genre) \/ ~HasMembers(title) THEN "TypeError"
        ELSE IF ~(IsNumber(energy) /\ IsNumber(chill_max_energy)) THEN "TypeError"
        ELSE IF Tenths(energy) <= Tenths(chill_max_energy) \/ is_chill_keyword THEN "Chill"
        ELSE IF genre = favorite_genre THEN "Hype"
        ELSE IF ~IsNumber(hype_min_energy) THEN "TypeError"
        ELSE IF Tenths(energy) >= Tenths(hype_min_energy) \/ is_hype_keyword THEN "Hype"
        ELSE "Mixed"

\* classify_song: the label, or "TypeError" where a Python operator raises
classify_song(song, profile) ==
    LET energy == Get(song.energy, VInt(0))
        genre  == Get(song.genre, VStr(<<>>))
        title  == Get(song.title, VStr(<<>>))
        hype_min_energy  == Get(profile.hype_min_energy, VInt(HypeMinDefault))
        chill_max_energy == Get(profile.chill_max_energy, VInt(ChillMaxDefault))
        favorite_genre   == Get(profile.favorite_genre, VStr(<<>>))
        is_hype_keyword  == \E k \in hype_keywords : KeywordIn(k, genre)
        is_chill_keyword == \E k \in chill_keywords : KeywordIn(k, title)
    IN  IF ~HasMembers(genre) \/ ~HasMembers(title) THEN "TypeError"
        ELSE IF genre = favorite_genre THEN "Hype"
        ELSE IF ~(IsNumber(energy) /\ IsNumber(hype_min_energy)) THEN "TypeError"
        ELSE IF Tenths(energy) >= Tenths(hype_min_energy) THEN "Hype"
        ELSE IF is_hype_keyword THEN "Hype"
        ELSE IF ~IsNumber(chill_max_energy) THEN "TypeError"
        ELSE IF Tenths(energy) <= Tenths(chill_max_energy) THEN "Chill"
        ELSE IF is_chill_keyword THEN "Chill"
        ELSE "Mixed"

(* ------------------------- playlist builder --------------------------- *)

\* A PlaylistMap is a dict: a sequence of entries [k, v] in insertion order,
\* no key twice; v is the list of songs under key k.
MapKeys(m) == {m[i].k : i \in 1..Len(m)}

\* m.get(key, [])
MapGet(m, key) ==
    IF key \in MapKeys(m) THEN m[CHOOSE i \in 1..Len(m) : m[i].k = key].v ELSE <<>>

\* m[key].append(song)
MapAppend(m, key, song) ==
    [i \in 1..Len(m) |-> IF m[i].k = key THEN [k |-> key, v |-> Append(m[i].v, song)] ELSE m[i]]

EmptyPlaylists ==
    <<[k |-> "Hype", v |-> <<>>], [k |-> "Chill", v |-> <<>>], [k |-> "Mixed", v |-> <<>>]>>

\* the loop of build_playlists over the songs not yet processed
RECURSIVE build_loop(_, _, _)
build_loop(playlists, songs, profile) ==
    IF songs = <<>> THEN [status |-> "ok", map |-> playlists]
    ELSE LET normalized == normalize_song(Head(songs))
             mood       == classify_song(normalized, profile)
         IN  IF mood = "TypeError" THEN [status |-> "TypeError", map |-> <<>>]
             ELSE build_loop(MapAppend(playlists, mood, [normalized EXCEPT !.mood = mood]),
                             Tail(songs), profile)

\* build_playlists: the map returned, or the exception that ends the call
build_playlists(songs, profile) == build_loop(EmptyPlaylists, songs, profile)

(* ------------------------------- merge -------------------------------- *)

\* merge_playlists with the two sides swapped: b's songs before a's
merge_playlists_b_first(order, a, b) ==
    [merged |-> [i \in 1..Len(order) |->
                    [k |-> order[i], v |-> MapGet(b, order[i]) \o MapGet(a, order[i])]],
     a |-> a,
     b |-> b]

\* merge_playlists, with `order` the order in which the set of keys is iterated
\* (any order: it is the iteration order of a Python set of str).  The result
\* holds the merged map and the two arguments as they are after the call.
merge_playlists(order, a, b) ==
    [merged |-> [i \in 1..Len(order) |->
                    [k |-> order[i], v |-> MapGet(a, order[i]) \o MapGet(b, order[i])]],
     a |-> a,
     b |-> b]

\* the orders a set of keys can be iterated in
KeyOrders(keys) ==
    {o \in [1..Cardinality(keys) -> keys] : \A i, j \in 1..Cardinality(keys) : o[i] = o[j] => i = j}

(* ----------------------------- statistics ----------------------------- *)

\* [song for songs in playlists.values() for song in songs]
RECURSIVE Flatten(_)
Flatten(m) == IF m = <<>> THEN <<>> ELSE Head(m).v \o Flatten(Tail(m))

\* the artists counted by most_common_artist, in the order met
ArtistsOf(songs) ==
    LET counted == SelectSeq(songs, LAMBDA s : Truthy(s.artist))
    IN  [i \in 1..Len(counted) |-> PyStr(counted[i].artist)]

Occurrences(x, xs) == Cardinality({i \in 1..Len(xs) : xs[i] = x})

\* most_common_artist breaking a tie for the artist met last
most_common_artist_last(songs) ==
    LET artists == ArtistsOf(songs)
    IN  IF artists = <<>> THEN [artist |-> <<>>, count |-> 0]
        ELSE LET best == CHOOSE c \in 1..Len(artists) :
                              /\ \E i \in 1..Len(artists) : Occurrences(artists[i], artists) = c
                              /\ \A i \in 1..Len(artists) : Occurrences(artists[i], artists) <= c
                 last == CHOOSE i \in 1..Len(artists) :
                              /\ Occurrences(artists[i], artists) = best
                              /\ \A j \in (i + 1)..Len(artists) : Occurrences(artists[j], artists) # best
             IN  [artist |-> artists[last], count |-> best]

\* most_common_artist: Counter(artists).most_common(1)[0] is the first key, in
\* the order the keys were inserted, whose count is the highest
most_common_artist(songs) ==
    LET artists == ArtistsOf(songs)
    IN  IF artists = <<>> THEN [artist |-> <<>>, count |-> 0]
        ELSE LET best  == CHOOSE c \in 1..Len(artists) :
                              /\ \E i \in 1..Len(artists) : Occurrences(artists[i], artists) = c
                              /\ \A i \in 1..Len(artists) : Occurrences(artists[i], artists) <= c
                 first == CHOOSE i \in 1..Len(artists) :
                              /\ Occurrences(artists[i], artists) = best
                              /\ \A j \in 1..(i - 1) : Occurrences(artists[j], artists) # best
             IN  [artist |-> artists[first], count |-> best]

\* sum(s.get("energy", 0) for s in hype), in tenths
RECURSIVE EnergySum10(_)
EnergySum10(songs) ==
    IF songs = <<>> THEN 0
    ELSE Tenths(Get(Head(songs).energy, VInt(0))) + EnergySum10(Tail(songs))

\* compute_playlist_stats averaging the energy over the Hype songs alone
compute_playlist_stats_avg_over_hype(playlists) ==
    LET all_songs == Flatten(playlists)
        hype      == MapGet(playlists, "Hype")
        chill     == MapGet(playlists, "Chill")
        mixed     == MapGet(playlists, "Mixed")
        top       == most_common_artist(all_songs)
    IN  IF all_songs # <<>>
           /\ \E i \in 1..Len(hype) : ~IsNumber(Get(hype[i].energy, VInt(0)))
        THEN [status |-> "TypeError"]
        ELSE [status      |-> "ok",
              total_songs |-> Len(all_songs),
              hype_count  |-> Len(hype),
              chill_count |-> Len(chill),
              mixed_count |-> Len(mixed),
              hype_ratio  |-> IF all_songs # <<>>
                              THEN [num |-> Len(hype), den |-> Len(all_songs)]
                              ELSE [num |-> 0, den |-> 1],
              avg_energy  |-> IF hype # <<>>
                              THEN [num |-> EnergySum10(hype), den |-> 10 * Len(hype)]
                              ELSE [num |-> 0, den |-> 1],
              top_artist       |-> top.artist,
              top_artist_count |-> top.count]

\* compute_playlist_stats; a quotient x / y is kept as the fraction [num, den]
compute_playlist_stats(playlists) ==
    LET all_songs == Flatten(playlists)
        hype      == MapGet(playlists, "Hype")
        chill     == MapGet(playlists, "Chill")
        mixed     == MapGet(playlists, "Mixed")
        top       == most_common_artist(all_songs)
    IN  IF all_songs # <<>>
           /\ \E i \in 1..Len(hype) : ~IsNumber(Get(hype[i].energy, VInt(0)))
        THEN [status |-> "TypeError"]
        ELSE [status      |-> "ok",
              total_songs |-> Len(all_songs),
              hype_count  |-> Len(hype),
              chill_count |-> Len(chill),
              mixed_count |-> Len(mixed),
              hype_ratio  |-> IF all_songs # <<>>
                              THEN [num |-> Len(hype), den |-> Len(all_songs)]
                              ELSE [num |-> 0, den |-> 1],
              avg_energy  |-> IF all_songs # <<>>
                              THEN [num |-> EnergySum10(hype), den |-> 10 * Len(all_songs)]
                              ELSE [num |-> 0, den |-> 1],
              top_artist       |-> top.artist,
              top_artist_count |-> top.count]

(* ------------------------------- search ------------------------------- *)

MoodText(mood) ==
    CASE mood = "Hype"  -> <<"H","y","p","e">>
      [] mood = "Chill" -> <<"C","h","i","l","l">>
      [] OTHER          -> <<"M","i","x","e","d">>

\* s.get(field, ""): the fields a song record can hold
FieldOf(song, field) ==
    CASE field = "title"  -> Get(song.title, VStr(<<>>))
      [] field = "artist" -> Get(song.artist, VStr(<<>>))
      [] field = "genre"  -> Get(song.genre, VStr(<<>>))
      [] field = "energy" -> Get(song.energy, VStr(<<>>))
      [] field = "tags"   -> Get(song.tags, VStr(<<>>))
      [] field = "mood"   -> IF song.mood = NoMood THEN VStr(<<>>) ELSE VStr(MoodText(song.mood))
      [] OTHER            -> VStr(<<>>)

\* search_songs without the strip() of the query
search_songs_untrimmed(songs, query, field) ==
    IF ~Truthy(query) THEN songs
    ELSE LET q == Lower(query.s)
         IN  SelectSeq(songs, LAMBDA s : Contains(q, Lower(PyStr(FieldOf(s, field)))))

\* search_songs
search_songs(songs, query, field) ==
    IF ~Truthy(query) THEN songs
    ELSE LET q == Strip(Lower(query.s))
         IN  SelectSeq(songs, LAMBDA s : Contains(q, Lower(PyStr(FieldOf(s, field)))))

(* ----------------------------- random pick ---------------------------- *)

NoSong == [none |-> TRUE, song |-> <<>>]

\* random_choice_or_none: the results random.choice can give
random_choice_or_none(songs) ==
    IF songs = <<>> THEN {NoSong}
    ELSE {[none |-> FALSE, song |-> songs[i]] : i \in 1..Len(songs)}

\* the pool of lucky_pick with the Mixed songs let into mode "any"
lucky_pool_with_mixed(playlists, mode) ==
    CASE mode = "hype"  -> MapGet(playlists, "Hype")
      [] mode = "chill" -> MapGet(playlists, "Chill")
      [] mode = "any"   -> MapGet(playlists, "Hype") \o MapGet(playlists, "Chill")
                           \o MapGet(playlists, "Mixed")
      [] OTHER          -> <<>>

\* songs_map.get(mode, []) of lucky_pick
lucky_pool(playlists, mode) ==
    CASE mode = "hype"  -> MapGet(playlists, "Hype")
      [] mode = "chill" -> MapGet(playlists, "Chill")
      [] mode = "any"   -> MapGet(playlists, "Hype") \o MapGet(playlists, "Chill")
      [] OTHER          -> <<>>

\* lucky_pick: the results the call can give
lucky_pick(playlists, mode) == random_choice_or_none(lucky_pool(playlists, mode))

(* ------------------------------ inputs -------------------------------- *)

\* the sequences over S of length at most n
SeqsUpTo(S, n) == UNION {[1..k -> S] : k \in 0..n}

\* the first song of the scenario: {"title": "Go Loud", "artist": "The Crows", "genre": "rock", "energy": 9}
Raw1 ==
    [title  |-> VStr(<<"G","o"," ","L","o","u","d">>),
     artist |-> VStr(<<"T","h","e"," ","C","r","o","w","s">>),
     genre  |-> VStr(<<"r","o","c","k">>),
     energy |-> VInt(9),
     tags   |-> Missing]

\* {"title": "lofi dreams", "artist": "Soft Bird", "genre": "ambient", "energy": 1}
Raw2 ==
    [title  |-> VStr(<<"l","o","f","i"," ","d","r","e","a","m","s">>),
     artist |-> VStr(<<"S","o","f","t"," ","B","i","r","d">>),
     genre  |-> VStr(<<"a","m","b","i","e","n","t">>),
     energy |-> VInt(1),
     tags   |-> Missing]

\* untrimmed text, a capital in the title, energy as text
Raw3 ==
    [title  |-> VStr(<<" ","S","l","e","e","p","y"," ">>),
     artist |-> VStr(<<" ","T","h","e"," ","C","r","o","w","s"," ">>),
     genre  |-> VStr(<<"J","a","z","z">>),
     energy |-> VStr(<<"5">>),
     tags   |-> VList(<<<<"l","i","v","e">>>>)]

\* the empty dict {}
Raw4 ==
    [title  |-> Missing,
     artist |-> Missing,
     genre  |-> Missing,
     energy |-> Missing,
     tags   |-> Missing]

\* a Hype keyword inside the genre and a Chill keyword in the title
Raw5 ==
    [title  |-> VStr(<<"l","o","f","i">>),
     artist |-> VStr(<<" ","s","o","f","t"," ","b","i","r","d">>),
     genre  |-> VStr(<<" ","P","o","p","-","R","o","c","k"," ">>),
     energy |-> VStr(<<" ","2"," ">>),
     tags   |-> VStr(<<"x">>)]

\* energy None
Raw6 ==
    [title  |-> VStr(<<"x">>),
     artist |-> VStr(<<"S","o","f","t"," ","B","i","r","d">>),
     genre  |-> VStr(<<"j","a","z","z">>),
     energy |-> None,
     tags   |-> VList(<<>>)]

\* energy text that is no integer
Raw7 ==
    [title  |-> VStr(<<"s","l","e","e","p">>),
     artist |-> VStr(<<>>),
     genre  |-> VStr(<<"j","a","z","z">>),
     energy |-> VStr(<<"a","b","c">>),
     tags   |-> Missing]

\* energy a float, artist and genre None
Raw8 ==
    [title  |-> VStr(<<"M","i","d">>),
     artist |-> None,
     genre  |-> None,
     energy |-> VFloat10(35),
     tags   |-> VStr(<<"y">>)]

RawBase == {Raw1, Raw2, Raw3, Raw4, Raw5, Raw6, Raw7, Raw8}

\* the largest int energy tried
MaxEnergy == 8

\* the energy values a raw song is tried with
RawEnergies ==
    {Missing, None, VFloat10(35), VFloat10(70), VBool(TRUE), VList(<<>>),
     VStr(<<"5">>), VStr(<<" ","2"," ">>), VStr(<<"a","b","c">>), VStr(<<"3",".","5">>), VStr(<<"-","1">>), VStr(<<"1","_","0">>)}
    \cup {VInt(n) : n \in (0 - 1)..MaxEnergy}

\* the raw songs normalize_song and classify_song are tried on
RawSongs == {[r EXCEPT !.energy = e] : r \in RawBase, e \in RawEnergies}

\* the profiles: {}, DEFAULT_PROFILE, and two whose thresholds overlap
NoProfile == [hype_min_energy |-> Missing, chill_max_energy |-> Missing, favorite_genre |-> Missing]
DEFAULT_PROFILE == [hype_min_energy |-> VInt(7), chill_max_energy |-> VInt(3), favorite_genre |-> VStr(<<"r","o","c","k">>)]
Profiles ==
    {NoProfile, DEFAULT_PROFILE,
     [hype_min_energy |-> VInt(4), chill_max_energy |-> VInt(6), favorite_genre |-> VStr(<<"j","a","z","z">>)],
     [hype_min_energy |-> VInt(2), chill_max_energy |-> VInt(4), favorite_genre |-> Missing]}

\* the songs the playlist maps are filled with: two labelled songs of
\* build_playlists and the bare dict {}
Song1 == [normalize_song(Raw1) EXCEPT !.mood = "Hype"]
Song2 == [normalize_song(Raw2) EXCEPT !.mood = "Chill"]
Song3 == [title |-> Missing, artist |-> Missing, genre |-> Missing,
          energy |-> Missing, tags |-> Missing, mood |-> NoMood]
MapSongs == {Song1, Song2, Song3}

\* the playlist maps whose keys are, in this order, ks, with at most n songs
RECURSIVE MapsOver(_, _)
MapsOver(ks, n) ==
    IF ks = <<>> THEN {<<>>}
    ELSE UNION {{<<[k |-> Head(ks), v |-> v]>> \o rest : rest \in MapsOver(Tail(ks), n - Len(v))} :
                v \in SeqsUpTo(MapSongs, n)}

\* the subsequences of a sequence of keys
RECURSIVE SubOrders(_)
SubOrders(ks) ==
    IF ks = <<>> THEN {<<>>}
    ELSE SubOrders(Tail(ks)) \cup {<<Head(ks)>> \o r : r \in SubOrders(Tail(ks))}

\* "Live" is a key that is none of the three moods
AllKeys     == <<"Hype", "Chill", "Mixed", "Live">>
AllKeysBack == <<"Live", "Mixed", "Chill", "Hype">>

MaxStatSongs  == 3
MaxPickSongs  == 2
MaxMergeSongs == 2
MaxSongs      == 2
MaxFound      == 2

StatMaps  == UNION {MapsOver(ks, MaxStatSongs) : ks \in SubOrders(AllKeys) \cup SubOrders(AllKeysBack)}
PickMaps  == UNION {MapsOver(ks, MaxPickSongs) : ks \in SubOrders(AllKeys)}
MergeMaps == UNION {MapsOver(ks, MaxMergeSongs) : ks \in SubOrders(<<"Hype", "Live">>)}

Modes == {"hype", "chill", "any", "mixed", "Hype"}

\* the songs searched: the three scenario-like songs as build_playlists labels them
SearchSongs ==
    {Song1, Song2, [normalize_song(Raw3) EXCEPT !.mood = "Mixed"]}
Queries ==
    {None, VStr(<<>>), VStr(<<" ">>), VStr(<<"c","r","o","w","s">>), VStr(<<" ","C","R","O","W","S"," ">>), VStr(<<"L","o","u","d">>), VStr(<<"9">>), VStr(<<"h","y","p","e">>)}
Fields == {"artist", "title", "energy", "mood", "album"}

(* --------------------------- the calls made --------------------------- *)

VARIABLES
    pc,       \* the call about to be made, then the function that returned
    profile,  \* the profile argument
    song,     \* the song argument
    songs,    \* the list-of-songs argument
    a, b,     \* the playlist-map arguments
    query, field, mode,
    batches,  \* the batches of raw songs built and merged so far
    out       \* what the call returned

vars == <<pc, profile, song, songs, a, b, query, field, mode, batches, out>>
args == <<profile, song, songs, a, b, query, field, mode, batches>>

NoOut == "<nothing>"

(* normalize_song, classify_song and build_playlists *)

Init ==
    /\ out = NoOut
    /\ \/ /\ pc = "call normalize_song"
          /\ song \in RawSongs
          /\ profile = NoProfile /\ songs = <<>>
       \/ /\ pc = "call classify_song"
          /\ song \in {normalize_song(r) : r \in RawSongs}
          /\ profile \in Profiles /\ songs = <<>>
       \/ /\ pc = "call build_playlists"
          /\ songs \in SeqsUpTo(RawBase, MaxSongs)
          /\ profile \in Profiles /\ song = Raw4
    /\ a = <<>> /\ b = <<>> /\ query = None /\ field = "artist" /\ mode = "any" /\ batches = <<>>

NormalizeSong ==
    /\ pc = "call normalize_song"
    /\ out' = normalize_song(song)
    /\ pc' = "normalize_song"
    /\ UNCHANGED args

ClassifySong ==
    /\ pc = "call classify_song"
    /\ out' = classify_song(song, profile)
    /\ pc' = "classify_song"
    /\ UNCHANGED args

BuildPlaylists ==
    /\ pc = "call build_playlists"
    /\ out' = build_playlists(songs, profile)
    /\ pc' = "build_playlists"
    /\ UNCHANGED args

Next == NormalizeSong \/ ClassifySong \/ BuildPlaylists

Spec == Init /\ [][Next]_vars

(* merge_playlists *)

InitMerge ==
    /\ pc = "call merge_playlists" /\ out = NoOut
    /\ a \in MergeMaps /\ b \in MergeMaps
    /\ profile = NoProfile /\ song = Raw4 /\ songs = <<>>
    /\ query = None /\ field = "artist" /\ mode = "any" /\ batches = <<>>

MergePlaylists ==
    /\ pc = "call merge_playlists"
    /\ \E order \in KeyOrders(MapKeys(a) \cup MapKeys(b)) :
          LET r == merge_playlists(order, a, b)
          IN  out' = r.merged /\ a' = r.a /\ b' = r.b
    /\ pc' = "merge_playlists"
    /\ UNCHANGED <<profile, song, songs, query, field, mode, batches>>

NextMerge == MergePlaylists

SpecMerge == InitMerge /\ [][NextMerge]_vars

(* compute_playlist_stats *)

InitStats ==
    /\ pc = "call compute_playlist_stats" /\ out = NoOut
    /\ a \in StatMaps
    /\ profile = NoProfile /\ song = Raw4 /\ songs = <<>> /\ b = <<>>
    /\ query = None /\ field = "artist" /\ mode = "any" /\ batches = <<>>

ComputePlaylistStats ==
    /\ pc = "call compute_playlist_stats"
    /\ out' = compute_playlist_stats(a)
    /\ pc' = "compute_playlist_stats"
    /\ UNCHANGED args

NextStats == ComputePlaylistStats

SpecStats == InitStats /\ [][NextStats]_vars

(* search_songs *)

InitSearch ==
    /\ pc = "call search_songs" /\ out = NoOut
    /\ songs \in SeqsUpTo(SearchSongs, MaxFound)
    /\ query \in Queries /\ field \in Fields
    /\ profile = NoProfile /\ song = Raw4 /\ a = <<>> /\ b = <<>>
    /\ mode = "any" /\ batches = <<>>

SearchSongsCall ==
    /\ pc = "call search_songs"
    /\ out' = search_songs(songs, query, field)
    /\ pc' = "search_songs"
    /\ UNCHANGED args

NextSearch == SearchSongsCall

SpecSearch == InitSearch /\ [][NextSearch]_vars

(* lucky_pick *)

InitPick ==
    /\ pc = "call lucky_pick" /\ out = NoOut
    /\ a \in PickMaps /\ mode \in Modes
    /\ profile = NoProfile /\ song = Raw4 /\ songs = <<>> /\ b = <<>>
    /\ query = None /\ field = "artist" /\ batches = <<>>

LuckyPick ==
    /\ pc = "call lucky_pick"
    /\ \E r \in lucky_pick(a, mode) : out' = r
    /\ pc' = "lucky_pick"
    /\ UNCHANGED args

NextPick == LuckyPick

SpecPick == InitPick /\ [][NextPick]_vars

(* ------------------- building and merging batch by batch --------------- *)

MaxBatches  == 3
MaxBatchLen == 2
BatchSongs  == {Raw3, Raw6}
Batches     == SeqsUpTo(BatchSongs, MaxBatchLen)

InitSession ==
    /\ pc = "session"
    /\ profile \in Profiles
    /\ song = Raw4 /\ songs = <<>> /\ a = <<>> /\ b = <<>>
    /\ query = None /\ field = "artist" /\ mode = "any"
    /\ batches = <<>>
    /\ out = NoOut

\* the first batch: build_playlists alone
FirstBatch ==
    /\ pc = "session" /\ batches = <<>>
    /\ \E batch \in Batches :
          /\ batches' = <<batch>>
          /\ out' = build_playlists(batch, profile)
          /\ pc' = IF out'.status = "ok" THEN "session" ELSE "raised"
    /\ UNCHANGED <<profile, song, songs, a, b, query, field, mode>>

\* a later batch: merge_playlists(the map so far, build_playlists(batch))
MergeBatch ==
    /\ pc = "session" /\ batches # <<>> /\ Len(batches) < MaxBatches
    /\ \E batch \in Batches :
          LET built == build_playlists(batch, profile)
          IN  /\ batches' = Append(batches, batch)
              /\ IF built.status = "ok"
                 THEN /\ \E order \in KeyOrders(MapKeys(out.map) \cup MapKeys(built.map)) :
                            out' = [status |-> "ok",
                                    map |-> merge_playlists(order, out.map, built.map).merged]
                      /\ pc' = "session"
                 ELSE out' = built /\ pc' = "raised"
    /\ UNCHANGED <<profile, song, songs, a, b, query, field, mode>>

NextSession == FirstBatch \/ MergeBatch

SpecSession == InitSession /\ [][NextSession]_vars

(* ============================== the claims ============================= *)

Range(q) == {q[i] : i \in 1..Len(q)}

\* the i-th smallest member of a set of numbers
Nth(S, i) == CHOOSE j \in S : Cardinality({k \in S : k < j}) = i - 1

\* q is exactly the members of p at the positions in idx, in p's order
IsSelection(q, p, idx) ==
    /\ Len(q) = Cardinality(idx)
    /\ \A i \in 1..Len(q) : q[i] = p[Nth(idx, i)]

(* ---- C1 ---- *)

\* the threshold a profile gives, or the default when the profile lacks it
ThresholdOr(v, default) == IF v.t = "missing" THEN default ELSE v.n
FavoriteOf(p) == IF p.favorite_genre.t = "missing" THEN <<>> ELSE p.favorite_genre.s

HypeCondition(sg, p) ==
    \/ sg.genre.s = FavoriteOf(p)
    \/ Tenths(sg.energy) >= 10 * ThresholdOr(p.hype_min_energy, 7)
    \/ \E k \in {<<"r","o","c","k">>, <<"p","u","n","k">>, <<"p","a","r","t","y">>} : Contains(k, sg.genre.s)

ChillCondition(sg, p) ==
    \/ Tenths(sg.energy) <= 10 * ThresholdOr(p.chill_max_energy, 3)
    \/ \E k \in {<<"l","o","f","i">>, <<"a","m","b","i","e","n","t">>, <<"s","l","e","e","p">>} : Contains(k, sg.title.s)

\* C1: on a normalized song whose energy is a number, classify_song returns
\* "Hype" when a Hype condition holds (favorite genre, energy >= hype_min_energy,
\* or a Hype keyword in the genre), otherwise "Chill" when a Chill condition
\* holds (energy <= chill_max_energy or a Chill keyword in the title), otherwise
\* "Mixed", with 7, 3 and "" standing in for missing profile fields; and a song
\* whose genre is the favorite genre is "Hype" whatever its energy field holds.
C1_ClassifyDecision ==
    pc = "classify_song" =>
       /\ IsNumber(song.energy) =>
             out = IF HypeCondition(song, profile) THEN "Hype"
                   ELSE IF ChillCondition(song, profile) THEN "Chill"
                   ELSE "Mixed"
       /\ song.genre.s = FavoriteOf(profile) => out = "Hype"

\* a song that is both Hype (keyword in the genre) and Chill (low energy and a
\* keyword in the title) was classified under the profile {} and came out Hype
C1_Witness ==
    /\ pc = "classify_song" /\ out = "Hype"
    /\ profile = NoProfile
    /\ song.energy = VInt(2)
    /\ Contains(<<"r","o","c","k">>, song.genre.s)
    /\ Contains(<<"l","o","f","i">>, song.title.s)

(* ---- C2 ---- *)

\* the normalized, labelled record build_playlists is to file raw song r under
Labelled(r, p) == [normalize_song(r) EXCEPT !.mood = classify_song(normalize_song(r), p)]

\* C2: build_playlists returns a map with exactly the keys Hype, Chill and
\* Mixed, in which every input song appears once, as its normalized record with
\* mood set, under the key its classification gives, in input order within the
\* key; the three lengths sum to the input length.
C2_BuildGroups ==
    pc = "build_playlists" =>
       /\ out.status = "ok"
       /\ MapKeys(out.map) = {"Hype", "Chill", "Mixed"}
       /\ Len(out.map) = 3
       /\ \A key \in {"Hype", "Chill", "Mixed"} :
             IsSelection(MapGet(out.map, key),
                         [i \in 1..Len(songs) |-> Labelled(songs[i], profile)],
                         {i \in 1..Len(songs) : classify_song(normalize_song(songs[i]), profile) = key})
       /\ Len(MapGet(out.map, "Hype")) + Len(MapGet(out.map, "Chill"))
             + Len(MapGet(out.map, "Mixed")) = Len(songs)

\* what is left of C2 where build_playlists does return: the grouping itself
C2_GroupsWhenReturned ==
    (pc = "build_playlists" /\ out.status = "ok") =>
       /\ MapKeys(out.map) = {"Hype", "Chill", "Mixed"}
       /\ Len(out.map) = 3
       /\ \A key \in {"Hype", "Chill", "Mixed"} :
             IsSelection(MapGet(out.map, key),
                         [i \in 1..Len(songs) |-> Labelled(songs[i], profile)],
                         {i \in 1..Len(songs) : classify_song(normalize_song(songs[i]), profile) = key})

(* ---- C3 ---- *)

\* C3: build_playlists has no error outcome: whatever the raw songs hold, the
\* call completes and returns a playlist map.
C3_BuildNeverRaises == pc = "build_playlists" => out.status = "ok"

(* ---- C4 ---- *)

\* C4: the energy of normalize_song(raw) is an integer: 0 for a missing energy,
\* the parsed integer for text that parses, 0 for text that does not, and no
\* other input leaves a non-integer there.
C4_EnergyIsInteger ==
    pc = "normalize_song" =>
       /\ out.energy.t \in {"int", "bool"}
       /\ song.energy.t = "missing" => out.energy = VInt(0)
       /\ song.energy.t = "str" =>
             out.energy = IF ParseInt(song.energy.s).ok
                          THEN VInt(ParseInt(song.energy.s).n) ELSE VInt(0)

\* what is left of C4 for the inputs the code does convert
C4_TextOrMissingBecomesInteger ==
    (pc = "normalize_song" /\ song.energy.t \in {"missing", "str", "int"}) =>
       out.energy.t = "int"

(* ---- C5 ---- *)

\* C5: merge_playlists(a, b) has exactly the keys of a and of b together, each
\* once; under each key a's songs come first, then b's, each side in its own
\* order (a side that lacks the key gives none); a and b are left as they were.
C5_MergeIsUnionOfKeys ==
    /\ [](pc = "merge_playlists" =>
             /\ MapKeys(out) = MapKeys(a) \cup MapKeys(b)
             /\ Len(out) = Cardinality(MapKeys(a) \cup MapKeys(b))
             /\ \A i \in 1..Len(out) :
                   LET fromA == IF \E j \in 1..Len(a) : a[j].k = out[i].k
                                THEN a[CHOOSE j \in 1..Len(a) : a[j].k = out[i].k].v ELSE <<>>
                       fromB == IF \E j \in 1..Len(b) : b[j].k = out[i].k
                                THEN b[CHOOSE j \in 1..Len(b) : b[j].k = out[i].k].v ELSE <<>>
                   IN  /\ Len(out[i].v) = Len(fromA) + Len(fromB)
                       /\ SubSeq(out[i].v, 1, Len(fromA)) = fromA
                       /\ SubSeq(out[i].v, Len(fromA) + 1, Len(out[i].v)) = fromB)
    /\ [][pc' = "merge_playlists" => (a' = a /\ b' = b)]_vars

\* a merge in which one key holds songs on both sides, two of them in a, and
\* the key "Live" comes from b alone
C5_Witness ==
    /\ pc = "merge_playlists"
    /\ MapGet(a, "Hype") = <<Song2, Song1>> /\ MapGet(b, "Hype") = <<Song3>>
    /\ "Live" \in MapKeys(b) \ MapKeys(a)
    /\ MapGet(out, "Hype") = <<Song2, Song1, Song3>>

(* ---- C6 ---- *)

RECURSIVE IntEnergyTotal(_)
IntEnergyTotal(q) ==
    IF q = <<>> THEN 0
    ELSE (IF Head(q).energy.t = "missing" THEN 0 ELSE Head(q).energy.n) + IntEnergyTotal(Tail(q))

RECURSIVE SongCount(_)
SongCount(m) == IF m = <<>> THEN 0 ELSE Len(Head(m).v) + SongCount(Tail(m))

ListUnder(m, key) ==
    IF \E i \in 1..Len(m) : m[i].k = key THEN m[CHOOSE i \in 1..Len(m) : m[i].k = key].v ELSE <<>>

\* C6: total_songs counts the songs under all keys; hype_count, chill_count
\* and mixed_count are the lengths under "Hype", "Chill", "Mixed" (0 when the
\* key is absent); hype_ratio is hype_count / total_songs; avg_energy is the
\* energy summed over the Hype songs only, divided by total_songs; both are 0
\* when there is no song.
C6_StatsCounts ==
    pc = "compute_playlist_stats" =>
       /\ out.status = "ok"
       /\ out.total_songs = SongCount(a)
       /\ out.hype_count  = Len(ListUnder(a, "Hype"))
       /\ out.chill_count = Len(ListUnder(a, "Chill"))
       /\ out.mixed_count = Len(ListUnder(a, "Mixed"))
       /\ out.hype_ratio.den > 0 /\ out.avg_energy.den > 0
       /\ IF SongCount(a) = 0
          THEN out.hype_ratio.num = 0 /\ out.avg_energy.num = 0
          ELSE /\ out.hype_ratio.num * SongCount(a)
                     = Len(ListUnder(a, "Hype")) * out.hype_ratio.den
               /\ out.avg_energy.num * SongCount(a)
                     = IntEnergyTotal(ListUnder(a, "Hype")) * out.avg_energy.den

\* statistics of a map with one Hype song of energy 9 among three songs, one
\* of them under the key "Live": avg_energy is 9/3, not 9/1
C6_Witness ==
    /\ pc = "compute_playlist_stats"
    /\ MapGet(a, "Hype") = <<Song1>> /\ MapGet(a, "Live") # <<>>
    /\ out.total_songs = 3 /\ out.hype_count = 1
    /\ out.avg_energy.num * 3 = 9 * out.avg_energy.den

(* ---- C7 ---- *)

\* the positions, in map-iteration then sequence order, of the songs whose
\* artist is not empty, and the number of songs by the artist at position i
ArtistPositions(all) == {i \in 1..Len(all) : Truthy(all[i].artist)}
SongsBy(all, i) ==
    Cardinality({j \in ArtistPositions(all) : PyStr(all[j].artist) = PyStr(all[i].artist)})

\* C7: top_artist is an artist with the highest number of occurrences among
\* the non-empty artists of all songs and top_artist_count is that number; of
\* several artists with the highest count the one met first in map-iteration
\* then sequence order is returned; with no non-empty artist it is ("", 0).
C7_TopArtist ==
    (pc = "compute_playlist_stats" /\ out.status = "ok") =>
       LET all == Flatten(a)
           pos == ArtistPositions(all)
       IN  IF pos = {}
           THEN out.top_artist = <<>> /\ out.top_artist_count = 0
           ELSE \E i \in pos :
                   /\ out.top_artist = PyStr(all[i].artist)
                   /\ out.top_artist_count = SongsBy(all, i)
                   /\ \A j \in pos : SongsBy(all, j) <= SongsBy(all, i)
                   /\ \A j \in pos : (SongsBy(all, j) = SongsBy(all, i) /\ j < i)
                                         => PyStr(all[j].artist) = PyStr(all[i].artist)

\* two artists with one song each, the later key of the map holding the
\* artist of Song1: the artist of Song2, met first, is returned
C7_Witness ==
    /\ pc = "compute_playlist_stats"
    /\ Flatten(a) = <<Song3, Song2, Song1>>
    /\ Len(a) = 3
    /\ out.top_artist = Song2.artist.s /\ out.top_artist_count = 1

(* ---- C8 ---- *)

\* C8: lucky_pick returns None exactly when its pool is empty and otherwise a
\* song of the pool: the Hype list for "hype", the Chill list for "chill", Hype
\* then Chill for "any", nothing for any other mode; a song that is only under
\* "Mixed" or another key is never returned.
C8_PickFromPool ==
    pc = "lucky_pick" =>
       LET hype  == ListUnder(a, "Hype")
           chill == ListUnder(a, "Chill")
           pool  == IF mode = "hype" THEN Range(hype)
                    ELSE IF mode = "chill" THEN Range(chill)
                    ELSE IF mode = "any" THEN Range(hype) \cup Range(chill)
                    ELSE {}
       IN  /\ out.none <=> pool = {}
           /\ ~out.none => out.song \in pool

\* mode "any" on a map whose Mixed list holds a song found nowhere else: the
\* pick came from the Chill list
C8_Witness ==
    /\ pc = "lucky_pick" /\ mode = "any"
    /\ MapGet(a, "Mixed") = <<Song3>>
    /\ MapGet(a, "Chill") = <<Song2>>
    /\ "Hype" \notin MapKeys(a)
    /\ out = [none |-> FALSE, song |-> Song2]

(* ---- C9 ---- *)

\* t occurs in f when letter case is ignored
OccursIgnoringCase(t, f) ==
    \E off \in 0..(Len(f) - Len(t)) :
        \A j \in 1..Len(t) : LowerChar(f[off + j]) = LowerChar(t[j])

\* C9: search_songs returns the input list itself for an empty query, and
\* otherwise exactly the songs whose stringified field (empty text when the
\* field is absent) contains the trimmed query, case ignored, in input order,
\* none added or repeated.
C9_SearchIsFilter ==
    pc = "search_songs" =>
       IF query.t = "none" \/ query.s = <<>>
       THEN out = songs
       ELSE IsSelection(out, songs,
                {i \in 1..Len(songs) :
                    OccursIgnoringCase(Strip(query.s), PyStr(FieldOf(songs[i], field)))})

\* the query " CROWS " on the artist field of two songs finds the one song
\* by the crows
C9_Witness ==
    /\ pc = "search_songs" /\ field = "artist"
    /\ query = VStr(<<" ","C","R","O","W","S"," ">>)
    /\ songs = <<Song2, Song1>>
    /\ out = <<Song1>>

(* ---- C10 ---- *)

RECURSIVE Concat(_)
Concat(bs) == IF bs = <<>> THEN <<>> ELSE Head(bs) \o Concat(Tail(bs))

\* C10: merging the maps built from the batches, left to right, gives a map
\* with exactly the keys Hype, Chill and Mixed whose list under each key is the
\* list build_playlists gives for the concatenation of the batches; every song
\* under key k has mood k.
C10_MergeOfBuilds ==
    (pc \in {"session", "raised"} /\ Len(batches) >= 2) =>
       /\ out.status = "ok"
       /\ build_playlists(Concat(batches), profile).status = "ok"
       /\ MapKeys(out.map) = {"Hype", "Chill", "Mixed"}
       /\ \A key \in {"Hype", "Chill", "Mixed"} :
             /\ MapGet(out.map, key) = MapGet(build_playlists(Concat(batches), profile).map, key)
             /\ \A i \in 1..Len(MapGet(out.map, key)) : MapGet(out.map, key)[i].mood = key

\* what is left of C10 while no build_playlists call has raised
C10_MergeOfBuildsWhenReturned ==
    (pc = "session" /\ batches # <<>>) =>
       /\ out.status = "ok"
       /\ MapKeys(out.map) = {"Hype", "Chill", "Mixed"} /\ Len(out.map) = 3
       /\ \A key \in {"Hype", "Chill", "Mixed"} :
             /\ MapGet(out.map, key) = MapGet(build_playlists(Concat(batches), profile).map, key)
             /\ \A i \in 1..Len(MapGet(out.map, key)) : MapGet(out.map, key)[i].mood = key
====
